---- MODULE Spec2Model ----
(***************************************************************************)
(* The two incremental fetch scripts of blsinsight,                        *)
(*   scripts/fetch_bls_data.py   (called "scripts" below) and              *)
(*   fetch_bls_data.py           (called "root" below),                    *)
(* as one state machine over the CSV file both of them load and save       *)
(* (OUTPUT_FILE = "data/bls_cleaned_data.csv" in both).  A run is          *)
(* sequential: load, one request per configured series, merge, save.  An   *)
(* uncaught Python exception ends the run before anything is written.      *)
(*                                                                         *)
(* Abstractions: a date is <<year, month>> (every date the scripts build   *)
(* is a first-of-month date); a float is the natural number its digits     *)
(* spell; a string that the code slices or rewrites (the period label,     *)
(* the value) is a sequence of one-character strings.                      *)
(***************************************************************************)
EXTENDS Integers, Sequences, FiniteSets

\* ------------------------------------------------------------- bounds
NumSeries == 2      \* how many of the configured series a run requests
MaxItems == 1       \* longest data array of one response
MaxRows == 2        \* longest CSV file the model starts from
MaxRuns == 2        \* runs of the scripts in one behaviour

\* ---------------------------------------------------------- constants
DefaultStartYear == 2022

all_series_ids ==
    << "CEU0000000001", "LNS14000000", "LNS11300000",
       "CES0500000003", "CES9091000001", "LNS12000000" >>

series_ids == SubSeq(all_series_ids, 1, NumSeries)

Series == {series_ids[i] : i \in 1..NumSeries}

\* Position of a series id in the lexicographic order of the id strings,
\* the order sort_values(by="seriesID") uses.
SeriesRank(s) ==
    CASE s = "CES0500000003" -> 1
      [] s = "CES9091000001" -> 2
      [] s = "CEU0000000001" -> 3
      [] s = "LNS11300000"   -> 4
      [] s = "LNS12000000"   -> 5
      [] s = "LNS14000000"   -> 6

\* ------------------------------------------------------ value domains
Years == {DefaultStartYear, DefaultStartYear + 1}
Months == {1, 2}
Dates == Years \X Months
NaT == <<0, 0>>

\* Period labels of the remote source; "M13" is not a month.
Periods == { <<"M", "0", "1">>, <<"M", "0", "2">>, <<"M", "1", "3">> }

\* Value strings of the remote source: "1", "1,2" and "-".
RawValues == { <<"1">>, <<"1", ",", "2">>, <<"-">> }

FileValues == {1, 12}

Items == [year : Years, period : Periods, value : RawValues]

Rows == [seriesID : Series, date : Dates, value : FileValues]

SeqsUpTo(S, n) == UNION {[1..k -> S] : k \in 0..n}

\* What one POST can come back with: a non-200 status, a 200 without
\* "Results", or a 200 with a data array.
Responses ==
    { [status_code |-> 500, results |-> FALSE, data |-> <<>>],
      [status_code |-> 200, results |-> FALSE, data |-> <<>>] }
    \cup { [status_code |-> 200, results |-> TRUE, data |-> d] :
             d \in SeqsUpTo(Items, MaxItems) }

\* ------------------------------------------------------ pure helpers
DigitChars == <<"0", "1", "2", "3", "4", "5", "6", "7", "8", "9">>

IsDigit(c) == \E i \in 1..10 : DigitChars[i] = c

DigitVal(c) == (CHOOSE i \in 1..10 : DigitChars[i] = c) - 1

RECURSIVE DigitsVal(_)
DigitsVal(cs) ==
    IF cs = <<>> THEN 0
    ELSE 10 * DigitsVal(SubSeq(cs, 1, Len(cs) - 1)) + DigitVal(cs[Len(cs)])

\* str.replace(",", "")
RECURSIVE RemoveCommas(_)
RemoveCommas(cs) ==
    IF cs = <<>> THEN <<>>
    ELSE IF Head(cs) = "," THEN RemoveCommas(Tail(cs))
    ELSE <<Head(cs)>> \o RemoveCommas(Tail(cs))

\* float(s) raises ValueError unless s spells a number.
FloatOk(cs) == cs /= <<>> /\ \A i \in 1..Len(cs) : IsDigit(cs[i])

\* item['value'].replace(",", "") and whether float() accepts it
ValueOk(item) == FloatOk(RemoveCommas(item.value))

ValueOf(item) == DigitsVal(RemoveCommas(item.value))

\* f"{item['year']}-{item['period'][1:]}-01": the year and the month text
DateString(item) == [year |-> item.year, mm |-> Tail(item.period)]

\* Whether pandas parses the date string: the month text is 01..12.
DateOk(ds) ==
    /\ Len(ds.mm) = 2
    /\ \A i \in 1..2 : IsDigit(ds.mm[i])
    /\ DigitsVal(ds.mm) \in 1..12

ParseDate(ds) == <<ds.year, DigitsVal(ds.mm)>>

\* pd.to_datetime(x, errors='coerce')
to_datetime_coerce(ds) == IF DateOk(ds) THEN ParseDate(ds) ELSE NaT

DateLess(a, b) == a[1] < b[1] \/ (a[1] = b[1] /\ a[2] < b[2])

DateLeq(a, b) == a = b \/ DateLess(a, b)

\* Series.max() / Series.min() of the dates of a non-empty frame
MaxDate(rows) ==
    CHOOSE d \in {rows[i].date : i \in 1..Len(rows)} :
        \A j \in 1..Len(rows) : DateLeq(rows[j].date, d)

MinDate(rows) ==
    CHOOSE d \in {rows[i].date : i \in 1..Len(rows)} :
        \A j \in 1..Len(rows) : DateLeq(d, rows[j].date)

Key(r) == <<r.seriesID, r.date>>

Keys(rows) == {Key(rows[i]) : i \in 1..Len(rows)}

RECURSIVE SelectSeq2(_, _)
SelectSeq2(s, keep) ==
    IF s = <<>> THEN <<>>
    ELSE LET rest == SelectSeq2(SubSeq(s, 1, Len(s) - 1), keep)
         IN IF Len(s) \in keep THEN Append(rest, s[Len(s)]) ELSE rest

\* new_data_df.dropna(subset=['date'])
dropna_date(rows) ==
    SelectSeq2(rows, {i \in 1..Len(rows) : rows[i].date /= NaT})

\* Mutants of drop_duplicates(subset=...): the subset forgotten (whole rows
\* compared), and keep=False (every row of a duplicated key dropped).
Mut_drop_duplicates_no_subset(rows) ==
    SelectSeq2(rows, {i \in 1..Len(rows) :
                        \A j \in 1..(i - 1) : rows[j] /= rows[i]})

Mut_drop_duplicates_keep_false(rows) ==
    SelectSeq2(rows, {i \in 1..Len(rows) :
                        \A j \in 1..Len(rows) :
                            j /= i => Key(rows[j]) /= Key(rows[i])})

\* drop_duplicates(subset=["seriesID", "date"]): keep defaults to 'first'
drop_duplicates_by_key(rows) ==
    SelectSeq2(rows, {i \in 1..Len(rows) :
                        \A j \in 1..(i - 1) : Key(rows[j]) /= Key(rows[i])})

\* drop_duplicates(): whole rows, keep defaults to 'first'
drop_duplicates_rows(rows) ==
    SelectSeq2(rows, {i \in 1..Len(rows) :
                        \A j \in 1..(i - 1) : rows[j] /= rows[i]})

\* Order of sort_values(by=["seriesID", "date"]); a NaT sorts last.
SeriesDateLeq(a, b) ==
    \/ SeriesRank(a.seriesID) < SeriesRank(b.seriesID)
    \/ /\ a.seriesID = b.seriesID
       /\ (b.date = NaT \/ (a.date /= NaT /\ DateLeq(a.date, b.date)))

\* Order of sort_values(by="date")
ByDateLeq(a, b) == b.date = NaT \/ (a.date /= NaT /\ DateLeq(a.date, b.date))

RowLeq(a, b, by) ==
    IF by = "seriesID_date" THEN SeriesDateLeq(a, b) ELSE ByDateLeq(a, b)

\* Stable insertion of r into a sequence already sorted in the order "by".
RECURSIVE InsertSorted(_, _, _)
InsertSorted(r, s, by) ==
    IF s = <<>> THEN <<r>>
    ELSE IF RowLeq(s[Len(s)], r, by) THEN Append(s, r)
    ELSE Append(InsertSorted(r, SubSeq(s, 1, Len(s) - 1), by), s[Len(s)])

\* Mutant of sort_values: the frame is left in concatenation order.
Mut_NoSort(s, by) == s

\* sort_values: rows with equal keys keep their order (the lexsort of a
\* two-column sort is stable; the default quicksort of a one-column sort
\* is numpy's insertion sort on frames this short, stable too).
RECURSIVE StableSort(_, _)
StableSort(s, by) ==
    IF s = <<>> THEN <<>>
    ELSE InsertSorted(s[Len(s)], StableSort(SubSeq(s, 1, Len(s) - 1), by), by)

sort_by_series_date(rows) == StableSort(rows, "seriesID_date")

sort_by_date(rows) == StableSort(rows, "date")

\* ------------------------------------------------------------- state
VARIABLES
    file,          \* the CSV at OUTPUT_FILE: [exists, rows]
    pc,            \* "idle", "fetching", "merging", "saved" or "aborted"
    script,        \* which script the current (or last) run is: "scripts" / "root"
    existing,      \* existing_data, as loaded at the start of the run
    start_year,    \* start_year of the run
    start_month,   \* start_month of the run (root only; 0 in scripts)
    idx,           \* position in series_ids of the next request
    new_data,      \* new_data (scripts) / all_data (root): the rows collected
    requests,      \* the payloads posted so far in this run
    responses,     \* the responses received so far in this run
    err,           \* the exception that ended the run, or "none"
    runs,          \* runs started so far
    writers        \* the scripts that saved the file so far, in order

vars == << file, pc, script, existing, start_year, start_month, idx,
           new_data, requests, responses, err, runs, writers >>

\* load_existing_data: the rows of the file, or an empty frame
load_existing_data(f) == IF f.exists THEN f.rows ELSE <<>>

\* response -> the list fetch_series_data returns
fetch_series_data(resp) ==
    IF resp.status_code = 200
    THEN IF resp.results THEN resp.data ELSE <<>>
    ELSE <<>>

Init ==
    /\ file \in {[exists |-> FALSE, rows |-> <<>>]}
                \cup {[exists |-> TRUE, rows |-> r] : r \in SeqsUpTo(Rows, MaxRows)}
    /\ pc = "idle"
    /\ script = "none"
    /\ existing = <<>>
    /\ start_year = DefaultStartYear
    /\ start_month = 0
    /\ idx = 1
    /\ new_data = <<>>
    /\ requests = <<>>
    /\ responses = <<>>
    /\ err = "none"
    /\ runs = 0
    /\ writers = <<>>

CanStart == pc \in {"idle", "saved", "aborted"} /\ runs < MaxRuns

\* scripts: start window = the earliest year of the existing dates
StartYearScripts(rows) ==
    IF rows /= <<>> THEN MinDate(rows)[1] ELSE DefaultStartYear

\* Mutant of the root start window: anchored to the earliest date.
Mut_StartYearEarliest(rows) ==
    IF rows /= <<>> THEN MinDate(rows)[1] ELSE DefaultStartYear

\* root: start window = year and month of the latest existing date
StartYearRoot(rows) ==
    IF rows /= <<>> THEN MaxDate(rows)[1] ELSE DefaultStartYear

StartMonthRoot(rows) ==
    IF rows /= <<>> THEN MaxDate(rows)[2] ELSE 1

BeginRun(s, rows, y, m) ==
    /\ pc' = "fetching"
    /\ script' = s
    /\ existing' = rows
    /\ start_year' = y
    /\ start_month' = m
    /\ idx' = 1
    /\ new_data' = <<>>
    /\ requests' = <<>>
    /\ responses' = <<>>
    /\ err' = "none"
    /\ runs' = runs + 1
    /\ UNCHANGED <<file, writers>>

StartScripts ==
    /\ CanStart
    /\ LET rows == load_existing_data(file)
       IN BeginRun("scripts", rows, StartYearScripts(rows), 0)

StartRoot ==
    /\ CanStart
    /\ LET rows == load_existing_data(file)
       IN BeginRun("root", rows, StartYearRoot(rows), StartMonthRoot(rows))

\* scripts, lines 73-78: every item becomes a row; float() may raise.
RECURSIVE ConvertScripts(_, _)
ConvertScripts(sid, items) ==
    IF items = <<>> THEN [rows |-> <<>>, err |-> "none"]
    ELSE LET item == Head(items)
         IN IF ~ValueOk(item)
            THEN [rows |-> <<>>, err |-> "ValueError"]
            ELSE LET rest == ConvertScripts(sid, Tail(items))
                 IN [rows |-> << [seriesID |-> sid,
                                  date |-> DateString(item),
                                  value |-> ValueOf(item)] >> \o rest.rows,
                     err |-> rest.err]

\* Mutant of the root window test: >= instead of >.
Mut_AfterWindowInclusive(date, cutoff) == DateLeq(cutoff, date)

\* root, line 72: is the item's date after the first day of the start month?
AfterWindow(date, cutoff) == DateLess(cutoff, date)

\* root, lines 70-77: the date is parsed first (and may raise); only an
\* item dated after the start window is converted and kept.
RECURSIVE ConvertRoot(_, _, _)
ConvertRoot(sid, items, cutoff) ==
    IF items = <<>> THEN [rows |-> <<>>, err |-> "none"]
    ELSE LET item == Head(items)
             ds == DateString(item)
         IN IF ~DateOk(ds)
            THEN [rows |-> <<>>, err |-> "DateParseError"]
            ELSE IF AfterWindow(ParseDate(ds), cutoff)
            THEN IF ~ValueOk(item)
                 THEN [rows |-> <<>>, err |-> "ValueError"]
                 ELSE LET rest == ConvertRoot(sid, Tail(items), cutoff)
                      IN [rows |-> << [seriesID |-> sid,
                                       date |-> ds,
                                       value |-> ValueOf(item)] >> \o rest.rows,
                          err |-> rest.err]
            ELSE ConvertRoot(sid, Tail(items), cutoff)

\* One turn of the loop over series_ids: the request, then its items.
FetchStep(resp, conv) ==
    /\ requests' = Append(requests,
                          [seriesid |-> series_ids[idx], startyear |-> start_year])
    /\ responses' = Append(responses, resp)
    /\ err' = conv.err
    /\ IF conv.err /= "none"
       THEN /\ pc' = "aborted"
            /\ UNCHANGED <<new_data, idx>>
       ELSE /\ new_data' = new_data \o conv.rows
            /\ idx' = idx + 1
            /\ pc' = IF idx = NumSeries THEN "merging" ELSE "fetching"
    /\ UNCHANGED <<file, script, existing, start_year, start_month, runs,
                   writers>>

FetchScripts(resp) ==
    /\ pc = "fetching" /\ script = "scripts"
    /\ FetchStep(resp, ConvertScripts(series_ids[idx], fetch_series_data(resp)))

FetchRoot(resp) ==
    /\ pc = "fetching" /\ script = "root"
    /\ FetchStep(resp, ConvertRoot(series_ids[idx], fetch_series_data(resp),
                                   <<start_year, start_month>>))

\* pd.to_datetime(df['date'], errors='coerce') over the collected rows
coerce_dates(rows) ==
    [i \in 1..Len(rows) |->
        [seriesID |-> rows[i].seriesID,
         date |-> to_datetime_coerce(rows[i].date),
         value |-> rows[i].value]]

\* Mutant of the scripts merge: the drop_duplicates line left out.
Mut_MergeNoDedup(old, new) == sort_by_series_date(old \o new)

\* scripts, lines 86-88: concat, drop duplicate keys, sort
MergeScriptsRows(old, new) ==
    sort_by_series_date(drop_duplicates_by_key(old \o new))

Abort(e) ==
    /\ pc' = "aborted"
    /\ err' = e
    /\ UNCHANGED <<file, writers>>

Save(rows) ==
    /\ pc' = "saved"
    /\ err' = "none"
    /\ file' = [exists |-> TRUE, rows |-> rows]
    /\ writers' = Append(writers, script)

\* scripts, lines 80-93.  pd.DataFrame([]) has no 'date' column.
MergeScripts ==
    /\ pc = "merging" /\ script = "scripts"
    /\ IF new_data = <<>>
       THEN Abort("KeyError")
       ELSE Save(MergeScriptsRows(existing, dropna_date(coerce_dates(new_data))))
    /\ UNCHANGED <<script, existing, start_year, start_month, idx, new_data,
                   requests, responses, runs>>

\* The date column of the root script's concat: the dates read from the CSV
\* are str, the freshly parsed ones are Timestamp.
WithDtype(rows, t) ==
    [i \in 1..Len(rows) |->
        [seriesID |-> rows[i].seriesID, date |-> rows[i].date,
         value |-> rows[i].value, dtype |-> t]]

WithoutDtype(rows) ==
    [i \in 1..Len(rows) |->
        [seriesID |-> rows[i].seriesID, date |-> rows[i].date,
         value |-> rows[i].value]]

\* root, line 85: concat and drop duplicate rows
CombineRoot(old, new) ==
    drop_duplicates_rows(WithDtype(old, "str") \o WithDtype(new, "Timestamp"))

\* sort_values(by="date") argsorts the object column with <, which raises
\* TypeError between a str and a Timestamp; any sort of a column holding
\* both has to compare one with the other.
MixedDtypes(rows) ==
    \E i, j \in 1..Len(rows) : rows[i].dtype /= rows[j].dtype

\* root, lines 79-91
MergeRoot ==
    /\ pc = "merging" /\ script = "root"
    /\ IF new_data = <<>>
       THEN Abort("KeyError")
       ELSE LET combined == CombineRoot(existing,
                                        dropna_date(coerce_dates(new_data)))
            IN IF MixedDtypes(combined)
               THEN Abort("TypeError")
               ELSE Save(WithoutDtype(sort_by_date(combined)))
    /\ UNCHANGED <<script, existing, start_year, start_month, idx, new_data,
                   requests, responses, runs>>

Next ==
    \/ StartScripts
    \/ StartRoot
    \/ \E resp \in Responses : FetchScripts(resp)
    \/ \E resp \in Responses : FetchRoot(resp)
    \/ MergeScripts
    \/ MergeRoot

Spec == Init /\ [][Next]_vars

\* ------------------------------------------------------------ claims
lastWriter == IF writers = <<>> THEN "none" ELSE writers[Len(writers)]

NoDupKeys(rows) ==
    \A i, j \in 1..Len(rows) : i /= j => Key(rows[i]) /= Key(rows[j])

\* The freshly fetched observations of the run, dates parsed, NaT dropped.
Incoming == dropna_date(coerce_dates(new_data))

NonDecreasingBySeriesDate(rows) ==
    \A i \in 1..(Len(rows) - 1) :
        \/ SeriesRank(rows[i].seriesID) < SeriesRank(rows[i + 1].seriesID)
        \/ /\ rows[i].seriesID = rows[i + 1].seriesID
           /\ ~DateLess(rows[i + 1].date, rows[i].date)

NonDecreasingByDate(rows) ==
    \A i \in 1..(Len(rows) - 1) : ~DateLess(rows[i + 1].date, rows[i].date)

\* C1: whenever the scripts variant wrote the file last, the file holds no
\* two rows with the same (seriesID, date), whatever the file held before
\* and whatever was fetched, after one run or several.
C1_NoDuplicateKeys == lastWriter = "scripts" => NoDupKeys(file.rows)

\* A second consecutive saving run of the scripts variant in which a
\* fetched observation had the key of an existing row.
C1_Witness ==
    /\ writers = <<"scripts", "scripts">>
    /\ pc = "saved"
    /\ Keys(existing) \cap Keys(Incoming) /= {}

RowSet(rows) == {rows[i] : i \in 1..Len(rows)}

RowsWithKey(rows, k) == {i \in 1..Len(rows) : Key(rows[i]) = k}

\* The value of the last fetched observation with key k.
LastIncomingValue(k) ==
    LET last == CHOOSE i \in RowsWithKey(Incoming, k) :
                    \A j \in RowsWithKey(Incoming, k) : j <= i
    IN Incoming[last].value

\* C2: after a saving run, every key that was both in the existing dataset
\* and among the fetched observations has exactly one row in the file, and
\* that row carries the fetched value (incoming overrides existing).
C2_IncomingWins ==
    pc = "saved" =>
        \A k \in Keys(existing) \cap Keys(Incoming) :
            /\ Cardinality(RowsWithKey(file.rows, k)) = 1
            /\ \A i \in RowsWithKey(file.rows, k) :
                   file.rows[i].value = LastIncomingValue(k)

\* A dataset as the scripts variant persists it: unique by key and sorted
\* by (seriesID, date).
IsScriptsDataset(rows) == NoDupKeys(rows) /\ NonDecreasingBySeriesDate(rows)

\* A Dataset in either variant's sense: unique by key and sorted by
\* (seriesID, date) or by date alone.
IsDataset(rows) ==
    /\ NoDupKeys(rows)
    /\ NonDecreasingBySeriesDate(rows) \/ NonDecreasingByDate(rows)

\* C3 as stated, for every dataset D: when every fetched observation is one
\* of D's own rows, the file after the run of the scripts variant is D
\* itself: same rows, values and order.
C3_IdempotentAnyDataset ==
    ( /\ pc \in {"saved", "aborted"}
      /\ script = "scripts"
      /\ IsDataset(existing)
      /\ RowSet(Incoming) \subseteq RowSet(existing) )
    => file.rows = existing

\* C3, amended: when the existing dataset D is unique by key and sorted by
\* (seriesID, date) and every fetched observation is one of D's own rows, the
\* file after the run of the scripts variant is D itself: same rows, values
\* and order.
C3_Idempotent ==
    ( /\ pc \in {"saved", "aborted"}
      /\ script = "scripts"
      /\ IsScriptsDataset(existing)
      /\ RowSet(Incoming) \subseteq RowSet(existing) )
    => file.rows = existing

\* A saving run over a dataset of two or more rows where something was
\* fetched, all of it parseable and all of it already in the dataset.
C3_Witness ==
    /\ pc = "saved"
    /\ script = "scripts"
    /\ Len(existing) >= 2
    /\ IsScriptsDataset(existing)
    /\ Incoming /= <<>>
    /\ Len(Incoming) = Len(new_data)
    /\ RowSet(Incoming) \subseteq RowSet(existing)

\* C4: a record whose period label is not a month never ends a run (in
\* either script), and no saved row carries a date that is not a month.
C4_BadPeriodDropped ==
    /\ err /= "DateParseError"
    /\ pc = "saved" => \A i \in 1..Len(file.rows) : file.rows[i].date \in Dates

\* C5: a record whose value is not numeric never ends a run.
C5_BadValueDropped == err /= "ValueError"

\* The series of this run whose request failed or returned no data.
FailedSeries ==
    {i \in 1..Len(responses) :
        \/ responses[i].status_code /= 200
        \/ ~responses[i].results
        \/ responses[i].data = <<>>}

\* C6: a finished run of the scripts variant in which some (or all) series
\* failed or returned nothing, and no record was malformed, has saved a file
\* that holds every existing key and every fetched key.
C6_FailuresContained ==
    ( /\ script = "scripts"
      /\ pc \in {"saved", "aborted"}
      /\ FailedSeries /= {}
      /\ err /= "ValueError" )
    => /\ pc = "saved"
       /\ Keys(existing) \cup Keys(Incoming) \subseteq Keys(file.rows)

\* C7: the file a run wrote is non-decreasing in the sort key of the script
\* that wrote it: (seriesID, date) for scripts, date for root.
C7_Sorted ==
    /\ lastWriter = "scripts" => NonDecreasingBySeriesDate(file.rows)
    /\ lastWriter = "root" => NonDecreasingByDate(file.rows)

\* The root variant saved, then the scripts variant loaded a file that was
\* not in its own sort order and saved it.
C7_Witness ==
    /\ writers = <<"root", "scripts">>
    /\ pc = "saved"
    /\ ~NonDecreasingBySeriesDate(existing)

\* C8: the start year of a run is 2022 (month 1 in root) when the existing
\* dataset is empty, else the year of the latest existing date in root and
\* of the earliest existing date in scripts; every request of the run
\* carries that start year.
C8_StartWindow ==
    pc /= "idle" =>
        /\ existing = <<>> =>
               /\ start_year = 2022
               /\ script = "root" => start_month = 1
        /\ (existing /= <<>> /\ script = "root") =>
               \E i \in 1..Len(existing) :
                   /\ existing[i].date = <<start_year, start_month>>
                   /\ \A j \in 1..Len(existing) :
                          ~DateLess(existing[i].date, existing[j].date)
        /\ (existing /= <<>> /\ script = "scripts") =>
               /\ \E i \in 1..Len(existing) : existing[i].date[1] = start_year
               /\ \A j \in 1..Len(existing) : start_year <= existing[j].date[1]
        /\ \A k \in 1..Len(requests) :
               /\ requests[k].seriesid = series_ids[k]
               /\ requests[k].startyear = start_year

\* After a saving run of the scripts variant, a root run over a dataset
\* that spans two years has posted all its requests.
C8_Witness ==
    /\ writers = <<"scripts">>
    /\ runs = 2
    /\ script = "root"
    /\ Len(requests) = NumSeries
    /\ \E i, j \in 1..Len(existing) : existing[i].date[1] /= existing[j].date[1]

\* C9: no step removes a (seriesID, date) key from the persisted file.
C9_AppendOnly == [][Keys(file.rows) \subseteq Keys(file'.rows)]_vars

\* A second run saved a file with keys the non-empty file before it lacked.
C9_Witness ==
    /\ pc = "saved"
    /\ runs = 2
    /\ Len(writers) = 2
    /\ existing /= <<>>
    /\ Keys(file.rows) \ Keys(existing) /= {}

\* d is the cut-off of the root run: the latest existing date, or
\* 2022-01-01 when there is none.
IsCutoff(d) ==
    IF existing = <<>> THEN d = <<2022, 1>>
    ELSE /\ \E i \in 1..Len(existing) : existing[i].date = d
         /\ \A j \in 1..Len(existing) : ~DateLess(d, existing[j].date)

\* C10: in root, every collected observation is dated strictly after the
\* cut-off; every row a saving run added is too, and has no existing key.
C10_OnlyAfterCutoff ==
    script = "root" =>
        \A d \in Dates :
            IsCutoff(d) =>
                /\ \A i \in 1..Len(new_data) :
                       DateLess(d, ParseDate(new_data[i].date))
                /\ pc = "saved" =>
                       \A i \in 1..Len(file.rows) :
                           \/ file.rows[i] \in RowSet(existing)
                           \/ /\ DateLess(d, file.rows[i].date)
                              /\ Key(file.rows[i]) \notin Keys(existing)

\* A root run over a non-empty dataset collected something, and was also
\* sent an observation on or before the cut-off whose key the dataset lacks.
C10_Witness ==
    /\ script = "root"
    /\ existing /= <<>>
    /\ new_data /= <<>>
    /\ \E k \in 1..Len(responses) :
           \E n \in 1..Len(responses[k].data) :
               LET ds == DateString(responses[k].data[n])
               IN /\ DateOk(ds)
                  /\ \A d \in Dates : IsCutoff(d) => DateLeq(ParseDate(ds), d)
                  /\ <<series_ids[k], ParseDate(ds)>> \notin Keys(existing)

====
